---- MODULE Spec2Model ----
(***************************************************************************)
(* A model of src/src/socket/udp.rs: the packet Buffer trait with its two  *)
(* implementations (NullBuffer, UnitaryBuffer) and the UDP Socket that     *)
(* composes a receive and a transmit buffer.                               *)
(*                                                                         *)
(* The object under test `obj` is either a stand-alone UnitaryBuffer or a  *)
(* Socket<Rx, Tx> whose two buffers are a UnitaryBuffer and a NullBuffer   *)
(* (one direction in use, as for a send-only or receive-only socket).      *)
(* Closures are data: a record saying what the closure writes and returns. *)
(***************************************************************************)
EXTENDS Integers, Sequences, FiniteSets, TLC

\* ---------------------------------------------------------------- bounds
\* Length of the caller-supplied storage slice of a UnitaryBuffer.
StorageLen == 1

\* ----------------------------------------------------- wire primitives
\* Two octet values and two port numbers stand for u8 and u16: the code only
\* copies octets and compares ports for equality.
Octet == {0, 1}
Port == {0, 1}

\* wire::InternetAddress: the Invalid placeholder, the unspecified (wildcard)
\* address and two concrete addresses.
Address == {"Invalid", "Unspecified", "A1", "A2"}

is_unspecified(addr) == addr = "Unspecified"

Endpoint == [addr : Address, port : Port]

\* Default::default() for an Endpoint.
DefaultEndpoint == [addr |-> "Invalid", port |-> 0]

\* Error kinds: the two the file names, and one that only a closure produces.
Errors == {"Exhausted", "Rejected", "Truncated"}

Ok(v) == [ok |-> TRUE, val |-> v]
Err(e) == [ok |-> FALSE, err |-> e]

IsOk(r) == r.ok
IsErr(r, e) == (~r.ok) /\ r.err = e

\* All octet sequences of length n, and of length at most n.
SeqsOfLen(n) == [1..n -> Octet]
SeqsUpTo(n) == UNION {SeqsOfLen(k) : k \in 0..n}

Zeros(n) == [i \in 1..n |-> 0]

\* &s[..n] and &s[n..]
Prefix(s, n) == SubSeq(s, 1, n)
Suffix(s, n) == SubSeq(s, n + 1, Len(s))

\* ------------------------------------------------------------- closures
\* An enqueue closure FnOnce(&mut [u8]) -> Result<R, Error>: it overwrites the
\* region it is handed with `data` and returns `ret`.
WriteClosure(data, ret) == [data |-> data, ret |-> ret]

\* |buffer| Ok(buffer.copy_from_slice(data))
CopyClosure(data) == WriteClosure(data, Ok("unit"))

\* Calling an enqueue closure on a region: the region afterwards, the result.
call_enqueue_closure(f, region) ==
    [region |-> f.data, ret |-> f.ret]

\* A caller's dequeue closure FnOnce(Endpoint, &[u8]) -> Result<R, Error>.
UserClosure(ret) == [kind |-> "user", ret |-> ret]

\* The caller's dispatch closure FnOnce(Address, Address, &UdpRepr).
EmitClosure(ret) == [kind |-> "emit", ret |-> ret]

\* The closure recv_slice hands to dequeue, over an output slice `data`.
recv_slice_closure(data, endpoint, buffer) ==
    IF Len(data) < Len(buffer)
    THEN [ret |-> Err("Exhausted"), calls |-> <<>>, data |-> data]
    ELSE [ret |-> Ok(<<Len(buffer), endpoint>>), calls |-> <<>>,
          data |-> buffer \o Suffix(data, Len(buffer))]

\* The closure dispatch hands to dequeue, around the caller's closure f.
dispatch_closure(src_endpoint, f, dst_endpoint, buffer) ==
    [ret |-> f.ret,
     calls |-> << [src_addr |-> src_endpoint.addr,
                   dst_addr |-> dst_endpoint.addr,
                   repr |-> [src_port |-> src_endpoint.port,
                             dst_port |-> dst_endpoint.port,
                             payload |-> buffer]] >>,
     data |-> <<>>]

\* Calling a dequeue closure: its result, the invocations of the caller's
\* closure it made (with their arguments), and the output slice afterwards.
call_dequeue_closure(f, endpoint, buffer) ==
    CASE f.kind = "user" ->
           [ret |-> f.ret,
            calls |-> << [endpoint |-> endpoint, buffer |-> buffer] >>,
            data |-> <<>>]
      [] f.kind = "recv_slice" -> recv_slice_closure(f.data, endpoint, buffer)
      [] f.kind = "dispatch" ->
           dispatch_closure(f.src_endpoint, f.f, endpoint, buffer)

\* ----------------------------------------------------------- NullBuffer
NullBuffer_new == [type |-> "NullBuffer"]

\* Faulty variant: the null buffer runs the closure and returns its result.
NullBuffer_enqueue_runs_closure(self, endpoint, size, f) ==
    [self |-> self, result |-> f.ret, called |-> TRUE]

NullBuffer_enqueue(self, endpoint, size, f) ==
    [self |-> self, result |-> Err("Exhausted"), called |-> FALSE]

NullBuffer_dequeue(self, f) ==
    [self |-> self, result |-> Err("Exhausted"), called |-> FALSE,
     calls |-> <<>>, data |-> <<>>]

\* -------------------------------------------------------- UnitaryBuffer
UnitaryBuffer_new(storage) ==
    [type |-> "UnitaryBuffer", endpoint |-> DefaultEndpoint,
     storage |-> storage, size |-> 0]

\* Faulty variant: the occupancy test is missing, a full slot is overwritten.
UnitaryBuffer_enqueue_overwrites(self, endpoint, size, f) ==
    IF size <= Len(self.storage)
    THEN LET c == call_enqueue_closure(f, Prefix(self.storage, size))
         IN  [self |-> [self EXCEPT
                          !.storage = c.region \o Suffix(self.storage, size),
                          !.endpoint = IF IsOk(c.ret) THEN endpoint ELSE @],
              result |-> c.ret, called |-> TRUE]
    ELSE [self |-> self, result |-> Err("Exhausted"), called |-> FALSE]

\* Faulty variant: the size test is missing, the closure runs for any size.
UnitaryBuffer_enqueue_unchecked_size(self, endpoint, size, f) ==
    IF self.endpoint.addr = "Invalid"
    THEN LET c == call_enqueue_closure(f, Prefix(self.storage, size))
         IN  [self |-> [self EXCEPT
                          !.storage = Prefix(c.region \o Suffix(self.storage, size),
                                             Len(self.storage)),
                          !.endpoint = IF IsOk(c.ret) THEN endpoint ELSE @],
              result |-> c.ret, called |-> TRUE]
    ELSE [self |-> self, result |-> Err("Exhausted"), called |-> FALSE]

\* Faulty variant: the endpoint is stored before the closure's result is looked at.
UnitaryBuffer_enqueue_commits_on_error(self, endpoint, size, f) ==
    IF self.endpoint.addr = "Invalid" /\ size <= Len(self.storage)
    THEN LET c == call_enqueue_closure(f, Prefix(self.storage, size))
         IN  [self |-> [self EXCEPT
                          !.storage = c.region \o Suffix(self.storage, size),
                          !.endpoint = endpoint],
              result |-> c.ret, called |-> TRUE]
    ELSE [self |-> self, result |-> Err("Exhausted"), called |-> FALSE]

UnitaryBuffer_enqueue(self, endpoint, size, f) ==
    IF self.endpoint.addr = "Invalid" /\ size <= Len(self.storage)
    THEN LET c == call_enqueue_closure(f, Prefix(self.storage, size))
             written == [self EXCEPT
                           !.storage = c.region \o Suffix(self.storage, size)]
         IN  IF IsOk(c.ret)
             THEN [self |-> [written EXCEPT !.endpoint = endpoint],
                   result |-> c.ret, called |-> TRUE]
             ELSE [self |-> written, result |-> c.ret, called |-> TRUE]
    ELSE [self |-> self, result |-> Err("Exhausted"), called |-> FALSE]

\* Faulty variant: the slot is never cleared, the packet stays queued.
UnitaryBuffer_dequeue_never_clears(self, f) ==
    IF self.endpoint.addr = "Invalid"
    THEN [self |-> self, result |-> Err("Exhausted"), called |-> FALSE,
          calls |-> <<>>, data |-> <<>>]
    ELSE LET c == call_dequeue_closure(f, self.endpoint,
                                       Prefix(self.storage, self.size))
         IN  [self |-> self, result |-> c.ret, called |-> TRUE,
              calls |-> c.calls, data |-> c.data]

\* Faulty variant: an error of the closure is reported as Exhausted.
UnitaryBuffer_dequeue_masks_error(self, f) ==
    IF self.endpoint.addr = "Invalid"
    THEN [self |-> self, result |-> Err("Exhausted"), called |-> FALSE,
          calls |-> <<>>, data |-> <<>>]
    ELSE LET c == call_dequeue_closure(f, self.endpoint,
                                       Prefix(self.storage, self.size))
         IN  [self |-> [self EXCEPT !.endpoint = DefaultEndpoint],
              result |-> IF IsOk(c.ret) THEN c.ret ELSE Err("Exhausted"),
              called |-> TRUE,
              calls |-> c.calls, data |-> c.data]

\* Faulty variant: the packet is dequeued only if the closure succeeds.
UnitaryBuffer_dequeue_keeps_on_error(self, f) ==
    IF self.endpoint.addr = "Invalid"
    THEN [self |-> self, result |-> Err("Exhausted"), called |-> FALSE,
          calls |-> <<>>, data |-> <<>>]
    ELSE LET c == call_dequeue_closure(f, self.endpoint,
                                       Prefix(self.storage, self.size))
         IN  [self |-> IF IsOk(c.ret)
                       THEN [self EXCEPT !.endpoint = DefaultEndpoint]
                       ELSE self,
              result |-> c.ret, called |-> TRUE,
              calls |-> c.calls, data |-> c.data]

UnitaryBuffer_dequeue(self, f) ==
    IF self.endpoint.addr = "Invalid"
    THEN [self |-> self, result |-> Err("Exhausted"), called |-> FALSE,
          calls |-> <<>>, data |-> <<>>]
    ELSE LET c == call_dequeue_closure(f, self.endpoint,
                                       Prefix(self.storage, self.size))
         IN  [self |-> [self EXCEPT !.endpoint = DefaultEndpoint],
              result |-> c.ret, called |-> TRUE,
              calls |-> c.calls, data |-> c.data]

\* --------------------------------------------------- the Buffer trait
enqueue(self, endpoint, size, f) ==
    IF self.type = "NullBuffer"
    THEN NullBuffer_enqueue(self, endpoint, size, f)
    ELSE UnitaryBuffer_enqueue(self, endpoint, size, f)

dequeue(self, f) ==
    IF self.type = "NullBuffer"
    THEN NullBuffer_dequeue(self, f)
    ELSE UnitaryBuffer_dequeue(self, f)

\* ------------------------------------------------------------- Socket
Socket_new(endpoint, rx_buffer, tx_buffer) ==
    [type |-> "Socket", endpoint |-> endpoint,
     rx_buffer |-> rx_buffer, tx_buffer |-> tx_buffer]

\* Faulty variant: the packet is enqueued on the rx buffer.
send_into_rx(self, endpoint, size, f) ==
    LET r == enqueue(self.rx_buffer, endpoint, size, f)
    IN  [self |-> [self EXCEPT !.rx_buffer = r.self],
         result |-> r.result, called |-> r.called]

send(self, endpoint, size, f) ==
    LET r == enqueue(self.tx_buffer, endpoint, size, f)
    IN  [self |-> [self EXCEPT !.tx_buffer = r.self],
         result |-> r.result, called |-> r.called]

send_slice(self, endpoint, data) ==
    LET r == enqueue(self.tx_buffer, endpoint, Len(data), CopyClosure(data))
    IN  [self |-> [self EXCEPT !.tx_buffer = r.self],
         result |-> r.result, called |-> r.called]

recv(self, f) ==
    LET r == dequeue(self.rx_buffer, f)
    IN  [self |-> [self EXCEPT !.rx_buffer = r.self],
         result |-> r.result, called |-> r.called,
         calls |-> r.calls, data |-> r.data]

recv_slice(self, data) ==
    LET r == dequeue(self.rx_buffer, [kind |-> "recv_slice", data |-> data])
    IN  [self |-> [self EXCEPT !.rx_buffer = r.self],
         result |-> r.result, called |-> r.called,
         calls |-> r.calls, data |-> IF r.called THEN r.data ELSE data]

\* Faulty variant: the bound address is not compared, only the port is.
collect_ignores_address(self, src_addr, dst_addr, repr) ==
    IF repr.dst_port # self.endpoint.port
    THEN [self |-> self, result |-> Err("Rejected"), called |-> FALSE]
    ELSE LET endpoint == [addr |-> src_addr, port |-> repr.src_port]
             r == enqueue(self.rx_buffer, endpoint, Len(repr.payload),
                          CopyClosure(repr.payload))
         IN  [self |-> [self EXCEPT !.rx_buffer = r.self],
              result |-> r.result, called |-> r.called]

\* Faulty variant: a datagram the rx buffer has no room for is reported as Rejected.
collect_rejects_when_full(self, src_addr, dst_addr, repr) ==
    IF repr.dst_port # self.endpoint.port
    THEN [self |-> self, result |-> Err("Rejected"), called |-> FALSE]
    ELSE IF (~is_unspecified(self.endpoint.addr))
            /\ self.endpoint.addr # dst_addr
    THEN [self |-> self, result |-> Err("Rejected"), called |-> FALSE]
    ELSE LET endpoint == [addr |-> src_addr, port |-> repr.src_port]
             r == enqueue(self.rx_buffer, endpoint, Len(repr.payload),
                          CopyClosure(repr.payload))
         IN  [self |-> [self EXCEPT !.rx_buffer = r.self],
              result |-> IF IsOk(r.result) THEN r.result ELSE Err("Rejected"),
              called |-> r.called]

collect(self, src_addr, dst_addr, repr) ==
    IF repr.dst_port # self.endpoint.port
    THEN [self |-> self, result |-> Err("Rejected"), called |-> FALSE]
    ELSE IF (~is_unspecified(self.endpoint.addr))
            /\ self.endpoint.addr # dst_addr
    THEN [self |-> self, result |-> Err("Rejected"), called |-> FALSE]
    ELSE LET endpoint == [addr |-> src_addr, port |-> repr.src_port]
             r == enqueue(self.rx_buffer, endpoint, Len(repr.payload),
                          CopyClosure(repr.payload))
         IN  [self |-> [self EXCEPT !.rx_buffer = r.self],
              result |-> r.result, called |-> r.called]

\* Faulty variant: dispatching unbinds the socket.
dispatch_rebinds(self, f) ==
    LET src_endpoint == self.endpoint
        r == dequeue(self.tx_buffer,
                     [kind |-> "dispatch", src_endpoint |-> src_endpoint,
                      f |-> f])
    IN  [self |-> [self EXCEPT !.tx_buffer = r.self,
                               !.endpoint = DefaultEndpoint],
         result |-> r.result, called |-> r.called,
         calls |-> r.calls, data |-> r.data]

dispatch(self, f) ==
    LET src_endpoint == self.endpoint
        r == dequeue(self.tx_buffer,
                     [kind |-> "dispatch", src_endpoint |-> src_endpoint,
                      f |-> f])
    IN  [self |-> [self EXCEPT !.tx_buffer = r.self],
         result |-> r.result, called |-> r.called,
         calls |-> r.calls, data |-> r.data]

\* ------------------------------------------------------ state machine
\* obj:     the object under test (a Buffer, or a Socket with its buffers)
\* pending: per buffer, the packet accepted by the most recent enqueue that
\*          returned Ok, if no dequeue has been called on that buffer since
\*          (a history variable; for a Socket one per direction)
\* last:    the last call made: its result, whether and with what the
\*          caller's closure was invoked
VARIABLES obj, pending, last

vars == <<obj, pending, last>>

NoPacket == [some |-> FALSE]

Packet(endpoint, payload) ==
    [some |-> TRUE, endpoint |-> endpoint, payload |-> payload]

\* `pending` of a buffer after an enqueue of (endpoint, payload) on it
\* returned `result`.
AfterEnqueue(p, result, endpoint, payload) ==
    IF IsOk(result) THEN Packet(endpoint, payload) ELSE p

\* What the closures of callers return.
ClosureRets == {Ok("done")} \cup {Err(e) : e \in Errors}

\* Payloads, and the data of enqueue closures: every octet sequence the
\* storage can hold, and one that is an octet too long.
Payloads == SeqsUpTo(StorageLen) \cup {Zeros(StorageLen + 1)}

\* The closures callers pass to enqueue and send.
WriteClosures == {WriteClosure(d, ret) : d \in Payloads, ret \in ClosureRets}

UdpReprs == [src_port : Port, dst_port : Port, payload : Payloads]

Storages == SeqsOfLen(StorageLen)

\* The output slices handed to recv_slice: zeroed, up to one octet more than
\* the storage holds.
OutSlices == {Zeros(n) : n \in 0..(StorageLen + 1)}

IsBuffer == obj.type \in {"UnitaryBuffer", "NullBuffer"}
IsSocket == obj.type = "Socket"

\* A stand-alone buffer, as UnitaryBuffer::new / NullBuffer::new leave it.
BufInit ==
    /\ obj \in {UnitaryBuffer_new(s) : s \in Storages} \cup {NullBuffer_new}
    /\ pending = NoPacket
    /\ last = [op |-> "new"]

\* A receive-only socket: Socket::new(endpoint, UnitaryBuffer, NullBuffer).
RxInit ==
    /\ obj \in {Socket_new(e, UnitaryBuffer_new(s), NullBuffer_new) :
                  e \in Endpoint, s \in Storages}
    /\ pending = [rx |-> NoPacket, tx |-> NoPacket]
    /\ last = [op |-> "new"]

\* A send-only socket: Socket::new(endpoint, NullBuffer, UnitaryBuffer).
TxInit ==
    /\ obj \in {Socket_new(e, NullBuffer_new, UnitaryBuffer_new(s)) :
                  e \in Endpoint, s \in Storages}
    /\ pending = [rx |-> NoPacket, tx |-> NoPacket]
    /\ last = [op |-> "new"]

Init == BufInit \/ RxInit \/ TxInit

\* buffer.enqueue(endpoint, size, f) on a stand-alone buffer
Enqueue ==
    /\ IsBuffer
    /\ \E endpoint \in Endpoint, f \in WriteClosures :
         LET r == enqueue(obj, endpoint, Len(f.data), f)
         IN  /\ obj' = r.self
             /\ pending' = AfterEnqueue(pending, r.result, endpoint, f.data)
             /\ last' = [op |-> "enqueue", size |-> Len(f.data),
                         result |-> r.result, called |-> r.called]

\* buffer.dequeue(f) on a stand-alone buffer
Dequeue ==
    /\ IsBuffer
    /\ \E ret \in ClosureRets :
         LET r == dequeue(obj, UserClosure(ret))
         IN  /\ obj' = r.self
             /\ pending' = NoPacket
             /\ last' = [op |-> "dequeue", result |-> r.result,
                         called |-> r.called, calls |-> r.calls]

\* socket.send(endpoint, size, f)
Send ==
    /\ IsSocket
    /\ \E endpoint \in Endpoint, f \in WriteClosures :
         LET r == send(obj, endpoint, Len(f.data), f)
         IN  /\ obj' = r.self
             /\ pending' = [pending EXCEPT !.tx =
                   AfterEnqueue(pending.tx, r.result, endpoint, f.data)]
             /\ last' = [op |-> "send", result |-> r.result,
                         called |-> r.called]

\* socket.send_slice(endpoint, data)
SendSlice ==
    /\ IsSocket
    /\ \E endpoint \in Endpoint, data \in Payloads :
         LET r == send_slice(obj, endpoint, data)
         IN  /\ obj' = r.self
             /\ pending' = [pending EXCEPT !.tx =
                   AfterEnqueue(pending.tx, r.result, endpoint, data)]
             /\ last' = [op |-> "send_slice", result |-> r.result,
                         called |-> r.called]

\* socket.recv(f)
Recv ==
    /\ IsSocket
    /\ \E ret \in ClosureRets :
         LET r == recv(obj, UserClosure(ret))
         IN  /\ obj' = r.self
             /\ pending' = [pending EXCEPT !.rx = NoPacket]
             /\ last' = [op |-> "recv", result |-> r.result,
                         called |-> r.called, calls |-> r.calls]

\* socket.recv_slice(data)
RecvSlice ==
    /\ IsSocket
    /\ \E data \in OutSlices :
         LET r == recv_slice(obj, data)
         IN  /\ obj' = r.self
             /\ pending' = [pending EXCEPT !.rx = NoPacket]
             /\ last' = [op |-> "recv_slice", result |-> r.result,
                         called |-> r.called, data |-> r.data]

\* socket.collect(src_addr, dst_addr, repr)
Collect ==
    /\ IsSocket
    /\ \E src_addr \in Address, dst_addr \in Address, repr \in UdpReprs :
         LET r == collect(obj, src_addr, dst_addr, repr)
         IN  /\ obj' = r.self
             /\ pending' = [pending EXCEPT !.rx =
                   AfterEnqueue(pending.rx, r.result,
                                [addr |-> src_addr, port |-> repr.src_port],
                                repr.payload)]
             /\ last' = [op |-> "collect", result |-> r.result,
                         called |-> r.called]

\* socket.dispatch(f)
Dispatch ==
    /\ IsSocket
    /\ \E ret \in ClosureRets :
         LET r == dispatch(obj, EmitClosure(ret))
         IN  /\ obj' = r.self
             /\ pending' = [pending EXCEPT !.tx = NoPacket]
             /\ last' = [op |-> "dispatch", result |-> r.result,
                         called |-> r.called, calls |-> r.calls]

BufNext ==
    \/ Enqueue
    \/ Dequeue

SocketNext ==
    \/ Send
    \/ SendSlice
    \/ Recv
    \/ RecvSlice
    \/ Collect
    \/ Dispatch

Next == BufNext \/ SocketNext

\* Every object: a stand-alone buffer, or a socket of either direction.
Spec == Init /\ [][Next]_vars

\* A stand-alone buffer under enqueue and dequeue.
BufSpec == BufInit /\ [][BufNext]_vars

\* A receive-only socket under the six socket operations.
RxSpec == RxInit /\ [][SocketNext]_vars

\* A send-only socket under the six socket operations.
TxSpec == TxInit /\ [][SocketNext]_vars

\* ------------------------------------------------------------- claims
\* The slot of a UnitaryBuffer is occupied iff its endpoint's address is not
\* the Invalid placeholder.
Occupied(buf) == buf.endpoint.addr # "Invalid"

\* Two results are the same result.
SameResult(a, b) ==
    /\ a.ok = b.ok
    /\ IF a.ok THEN a.val = b.val ELSE a.err = b.err

\* The enqueue closures that succeed, and those that fail.
OkWrites(data) == WriteClosure(data, Ok("done"))
FailingRets == {Err(e) : e \in Errors}

\* Payloads the storage can hold, and payloads one or two octets too long.
FittingPayloads == SeqsUpTo(StorageLen)
OverPayloads == SeqsOfLen(StorageLen + 1) \cup SeqsOfLen(StorageLen + 2)

\* C1: round trip on a UnitaryBuffer. Right after an enqueue(endpoint,
\* payload.len(), f) that returned Ok and whose closure wrote the payload, a
\* dequeue hands its closure exactly that endpoint and a region whose length
\* and octets equal the payload, whatever the dequeue closure returns. Stated
\* for the endpoints whose address is not the Invalid placeholder, which is
\* already more than the code delivers.
C1_RoundTrip ==
    (/\ last.op = "enqueue"
     /\ IsOk(last.result)
     /\ pending.endpoint.addr # "Invalid") =>
        \A ret \in ClosureRets :
            LET d == dequeue(obj, UserClosure(ret))
            IN  /\ d.called
                /\ d.calls = << [endpoint |-> pending.endpoint,
                                 buffer |-> pending.payload] >>

\* Every enqueue on buffer `b` returns Exhausted without invoking its closure.
RejectsEveryEnqueue(b) ==
    \A endpoint \in Endpoint, f \in WriteClosures :
        LET e == enqueue(b, endpoint, Len(f.data), f)
        IN  IsErr(e.result, "Exhausted") /\ ~e.called

\* C2 as stated: once an enqueue on a UnitaryBuffer has returned Ok (any
\* endpoint, any size), every further enqueue issued before a dequeue returns
\* Exhausted and does not invoke its closure.
C2_MutualExclusion_AnyEndpoint ==
    (obj.type = "UnitaryBuffer" /\ pending.some) => RejectsEveryEnqueue(obj)

\* C2 as amended: once an enqueue on a UnitaryBuffer has returned Ok for an
\* endpoint whose address is not Address::Invalid (any size, 0 included),
\* every further enqueue issued before a dequeue returns Exhausted and does
\* not invoke its closure.
C2_MutualExclusion ==
    (/\ obj.type = "UnitaryBuffer"
     /\ pending.some
     /\ pending.endpoint.addr # "Invalid") => RejectsEveryEnqueue(obj)

\* C2 witness: a zero-length packet with a valid endpoint is pending and a
\* further enqueue that would have fitted has just been turned down.
C2_Witness ==
    /\ obj.type = "UnitaryBuffer"
    /\ pending.some
    /\ pending.endpoint.addr # "Invalid"
    /\ Len(pending.payload) = 0
    /\ last.op = "enqueue"
    /\ last.size <= Len(obj.storage)
    /\ IsErr(last.result, "Exhausted")
    /\ ~last.called

\* C3: recv_slice truncation. Whenever the rx buffer holds a packet that was
\* collected with a payload of n octets, a recv_slice with an output slice
\* shorter than n returns Exhausted and leaves the rx buffer empty: a recv
\* that follows returns Exhausted.
C3_RecvSliceTruncation ==
    (/\ obj.type = "Socket"
     /\ obj.rx_buffer.type = "UnitaryBuffer"
     /\ pending.rx.some
     /\ Occupied(obj.rx_buffer)) =>
        \A data \in OutSlices :
            Len(data) < Len(pending.rx.payload) =>
                LET r == recv_slice(obj, data)
                IN  /\ IsErr(r.result, "Exhausted")
                    /\ ~Occupied(r.self.rx_buffer)
                    /\ \A ret \in ClosureRets :
                           IsErr(recv(r.self, UserClosure(ret)).result,
                                 "Exhausted")

\* C4: collect then recv_slice delivers the datagram. Right after a
\* collect(src_addr, dst_addr, repr) that returned Ok, a recv_slice with an
\* output slice of at least repr.payload.len() octets returns
\* Ok((repr.payload.len(), (src_addr, repr.src_port))) and the first
\* repr.payload.len() octets of the output equal repr.payload. Stated for the
\* source addresses other than the Invalid placeholder.
C4_CollectThenRecvSlice ==
    (/\ last.op = "collect"
     /\ IsOk(last.result)
     /\ pending.rx.endpoint.addr # "Invalid") =>
        \A data \in OutSlices :
            Len(data) >= Len(pending.rx.payload) =>
                LET r == recv_slice(obj, data)
                    n == Len(pending.rx.payload)
                IN  /\ IsOk(r.result)
                    /\ r.result.val = <<n, pending.rx.endpoint>>
                    /\ Prefix(r.data, n) = pending.rx.payload

\* C5: dispatch identity. Right after a send or send_slice to peer P with
\* payload D was accepted, dispatch invokes its closure exactly once, with
\* (socket.endpoint.addr, P.addr, UdpRepr{src_port: socket.endpoint.port,
\* dst_port: P.port, payload: D}), and returns the closure's result. Stated
\* for the peers whose address is not the Invalid placeholder.
C5_DispatchIdentity ==
    (/\ last.op \in {"send", "send_slice"}
     /\ IsOk(last.result)
     /\ pending.tx.endpoint.addr # "Invalid") =>
        \A ret \in ClosureRets :
            LET r == dispatch(obj, EmitClosure(ret))
            IN  /\ r.calls = << [src_addr |-> obj.endpoint.addr,
                                 dst_addr |-> pending.tx.endpoint.addr,
                                 repr |-> [src_port |-> obj.endpoint.port,
                                           dst_port |-> pending.tx.endpoint.port,
                                           payload |-> pending.tx.payload]] >>
                /\ SameResult(r.result, ret)

\* C6: enqueue atomicity. On an empty UnitaryBuffer (here the tx buffer of a
\* socket), when the closure passed to enqueue, or to send, returns an error,
\* that error is what the call returns, the buffer's endpoint and size are
\* unchanged, and a dequeue, or dispatch, that follows at once returns
\* Exhausted without invoking its closure.
C6_EnqueueAtomicity ==
    (/\ obj.type = "Socket"
     /\ obj.tx_buffer.type = "UnitaryBuffer"
     /\ ~Occupied(obj.tx_buffer)) =>
        \A endpoint \in Endpoint, data \in FittingPayloads, err \in FailingRets :
            LET f == WriteClosure(data, err)
                e == enqueue(obj.tx_buffer, endpoint, Len(data), f)
                s == send(obj, endpoint, Len(data), f)
            IN  /\ e.called /\ SameResult(e.result, err)
                /\ e.self.endpoint = obj.tx_buffer.endpoint
                /\ e.self.size = obj.tx_buffer.size
                /\ s.called /\ SameResult(s.result, err)
                /\ s.self.tx_buffer.endpoint = obj.tx_buffer.endpoint
                /\ s.self.tx_buffer.size = obj.tx_buffer.size
                /\ \A ret \in ClosureRets :
                       LET d == dequeue(e.self, UserClosure(ret))
                           t == dispatch(s.self, EmitClosure(ret))
                       IN  /\ IsErr(d.result, "Exhausted") /\ ~d.called
                           /\ IsErr(t.result, "Exhausted") /\ ~t.called

\* C6 witness: a send whose closure ran and failed with an error of its own
\* has just returned that error, and the tx buffer is empty.
C6_Witness ==
    /\ obj.type = "Socket"
    /\ obj.tx_buffer.type = "UnitaryBuffer"
    /\ last.op = "send"
    /\ last.called
    /\ IsErr(last.result, "Truncated")
    /\ ~Occupied(obj.tx_buffer)

\* C7: dequeue commit. After a dequeue on an occupied UnitaryBuffer has
\* returned, its closure having succeeded or failed, the buffer is empty: the
\* next dequeue returns Exhausted, and the next enqueue of a size the storage
\* holds, with a closure that succeeds, is accepted.
C7_DequeueCommit ==
    (/\ obj.type = "UnitaryBuffer"
     /\ last.op = "dequeue"
     /\ last.called) =>
        /\ \A ret \in ClosureRets :
               LET d == dequeue(obj, UserClosure(ret))
               IN  IsErr(d.result, "Exhausted") /\ ~d.called
        /\ \A endpoint \in Endpoint, data \in FittingPayloads :
               LET e == enqueue(obj, endpoint, Len(data), OkWrites(data))
               IN  IsOk(e.result) /\ e.called

\* C7 witness: a dequeue on an occupied buffer has just returned the error of
\* its closure.
C7_Witness ==
    /\ obj.type = "UnitaryBuffer"
    /\ last.op = "dequeue"
    /\ last.called
    /\ IsErr(last.result, "Rejected")

\* A datagram for (dst_addr, repr.dst_port) fails the filter of a socket
\* bound to `bound`, in the words of the claim.
FailsFilter(bound, dst_addr, repr) ==
    \/ repr.dst_port # bound.port
    \/ (~is_unspecified(bound.addr)) /\ dst_addr # bound.addr

\* C8: collect returns Rejected exactly when repr.dst_port differs from the
\* bound port, or the bound address is not unspecified and dst_addr differs
\* from it (so with an unspecified bound address every dst_addr with the
\* bound port passes); on Rejected the rx buffer is unchanged.
C8_CollectFilter ==
    obj.type = "Socket" =>
        \A src_addr \in Address, dst_addr \in Address, repr \in UdpReprs :
            LET r == collect(obj, src_addr, dst_addr, repr)
            IN  /\ IsErr(r.result, "Rejected")
                     <=> FailsFilter(obj.endpoint, dst_addr, repr)
                /\ IsErr(r.result, "Rejected")
                     => r.self.rx_buffer = obj.rx_buffer
                /\ (is_unspecified(obj.endpoint.addr)
                    /\ repr.dst_port = obj.endpoint.port)
                     => ~IsErr(r.result, "Rejected")

\* C8 witness: a socket bound to a concrete address has just rejected a
\* datagram while a collected packet sits in its rx buffer.
C8_Witness ==
    /\ obj.type = "Socket"
    /\ obj.endpoint.addr \in {"A1", "A2"}
    /\ last.op = "collect"
    /\ IsErr(last.result, "Rejected")
    /\ Occupied(obj.rx_buffer)

\* C9: Rejected versus Exhausted in collect. A datagram that passes the
\* filter while the rx buffer is occupied, or whose payload exceeds the rx
\* capacity, yields Exhausted, never Rejected, and leaves the rx buffer as it
\* was; a datagram that fails the filter yields Rejected whether the rx
\* buffer is empty or full.
C9_RejectedVersusExhausted ==
    (obj.type = "Socket" /\ obj.rx_buffer.type = "UnitaryBuffer") =>
        \A src_addr \in Address, dst_addr \in Address, repr \in UdpReprs :
            LET r == collect(obj, src_addr, dst_addr, repr)
            IN  IF FailsFilter(obj.endpoint, dst_addr, repr)
                THEN IsErr(r.result, "Rejected")
                ELSE (\/ Occupied(obj.rx_buffer)
                      \/ Len(repr.payload) > Len(obj.rx_buffer.storage))
                       => /\ IsErr(r.result, "Exhausted")
                          /\ r.self.rx_buffer = obj.rx_buffer

\* C9 witness: the rx buffer is occupied and a collect has just returned
\* Exhausted.
C9_Witness ==
    /\ obj.type = "Socket"
    /\ obj.rx_buffer.type = "UnitaryBuffer"
    /\ Occupied(obj.rx_buffer)
    /\ last.op = "collect"
    /\ IsErr(last.result, "Exhausted")

\* C10: unitary capacity. An enqueue with size > storage.len(), and a
\* send_slice with a slice longer than the tx storage, returns Exhausted
\* without invoking the closure and without changing the buffer's endpoint,
\* size or stored octets, be the buffer empty or occupied.
C10_UnitaryCapacity ==
    (obj.type = "Socket" /\ obj.tx_buffer.type = "UnitaryBuffer") =>
        \A endpoint \in Endpoint, data \in OverPayloads :
            /\ \A ret \in ClosureRets :
                   LET e == enqueue(obj.tx_buffer, endpoint, Len(data),
                                    WriteClosure(data, ret))
                   IN  /\ IsErr(e.result, "Exhausted")
                       /\ ~e.called
                       /\ e.self = obj.tx_buffer
            /\ LET s == send_slice(obj, endpoint, data)
               IN  /\ IsErr(s.result, "Exhausted")
                   /\ ~s.called
                   /\ s.self = obj

\* C10 witness: a send_slice has just returned Exhausted although the tx
\* buffer is empty, so its slice was longer than the storage.
C10_Witness ==
    /\ obj.type = "Socket"
    /\ obj.tx_buffer.type = "UnitaryBuffer"
    /\ ~Occupied(obj.tx_buffer)
    /\ last.op = "send_slice"
    /\ IsErr(last.result, "Exhausted")
    /\ ~last.called

\* C11: FIFO, no loss within a buffer. In every state reached by any
\* interleaving of enqueues and dequeues on one buffer, the next dequeue hands
\* its closure exactly the packets accepted and not yet dequeued, in order:
\* the one pending packet (its endpoint and its payload) if an enqueue
\* returned Ok since the last dequeue, and nothing otherwise. Stated for the
\* endpoints whose address is not the Invalid placeholder.
C11_Fifo ==
    (IsBuffer /\ (pending.some => pending.endpoint.addr # "Invalid")) =>
        \A ret \in ClosureRets :
            LET d == dequeue(obj, UserClosure(ret))
            IN  d.calls = IF pending.some
                          THEN << [endpoint |-> pending.endpoint,
                                   buffer |-> pending.payload] >>
                          ELSE <<>>

\* C12: null rejection. In every reachable state of a socket whose rx buffer
\* is a NullBuffer, for every endpoint, size and closure, enqueue and dequeue
\* on that buffer return Exhausted, do not invoke the closure and leave the
\* buffer as it was; every recv and recv_slice of the socket returns
\* Exhausted, and so does every collect that passes the filter.
C12_NullRejection ==
    (IsSocket /\ obj.rx_buffer.type = "NullBuffer") =>
        /\ \A endpoint \in Endpoint, f \in WriteClosures,
              size \in 0..(StorageLen + 1) :
               LET e == enqueue(obj.rx_buffer, endpoint, size, f)
               IN  /\ IsErr(e.result, "Exhausted")
                   /\ ~e.called
                   /\ e.self = obj.rx_buffer
        /\ \A ret \in ClosureRets :
               LET d == dequeue(obj.rx_buffer, UserClosure(ret))
                   r == recv(obj, UserClosure(ret))
               IN  /\ IsErr(d.result, "Exhausted")
                   /\ ~d.called
                   /\ d.self = obj.rx_buffer
                   /\ IsErr(r.result, "Exhausted")
                   /\ ~r.called
        /\ \A data \in OutSlices :
               LET r == recv_slice(obj, data)
               IN  IsErr(r.result, "Exhausted") /\ r.data = data
        /\ \A src_addr \in Address, dst_addr \in Address, repr \in UdpReprs :
               (~FailsFilter(obj.endpoint, dst_addr, repr)) =>
                   IsErr(collect(obj, src_addr, dst_addr, repr).result,
                         "Exhausted")

\* C12 witness: on a socket with a NullBuffer rx whose tx buffer holds a
\* packet from an earlier send, a collect has just come back with Exhausted.
C12_Witness ==
    /\ IsSocket
    /\ obj.rx_buffer.type = "NullBuffer"
    /\ Occupied(obj.tx_buffer)
    /\ last.op = "collect"
    /\ IsErr(last.result, "Exhausted")
    /\ ~last.called

\* After a first dispatch with closure result `ret1`, every second dispatch
\* returns Exhausted without invoking its closure.
SecondDispatchExhausted(self, ret1) ==
    \A ret2 \in ClosureRets :
        LET second == dispatch(dispatch(self, EmitClosure(ret1)).self,
                               EmitClosure(ret2))
        IN  IsErr(second.result, "Exhausted") /\ ~second.called

\* C13 as stated: dispatch on an empty tx buffer returns Exhausted and does
\* not invoke its closure; and once a send has been accepted (any peer), with
\* no dispatch since, the first dispatch invokes its closure and a second one
\* returns Exhausted.
C13_DispatchOnce_AnyPeer ==
    (IsSocket /\ obj.tx_buffer.type = "UnitaryBuffer") =>
        \A ret \in ClosureRets :
            LET first == dispatch(obj, EmitClosure(ret))
            IN  /\ (~Occupied(obj.tx_buffer)) =>
                       IsErr(first.result, "Exhausted") /\ ~first.called
                /\ pending.tx.some =>
                       first.called /\ SecondDispatchExhausted(obj, ret)

\* C13 as amended: dispatch on an empty tx buffer returns Exhausted and does
\* not invoke its closure; and once a send to a peer whose address is not
\* Address::Invalid has been accepted, with no dispatch since, the first
\* dispatch invokes its closure exactly once and a second one returns
\* Exhausted without invoking its closure.
C13_DispatchOnce ==
    (IsSocket /\ obj.tx_buffer.type = "UnitaryBuffer") =>
        \A ret \in ClosureRets :
            LET first == dispatch(obj, EmitClosure(ret))
            IN  /\ (~Occupied(obj.tx_buffer)) =>
                       IsErr(first.result, "Exhausted") /\ ~first.called
                /\ (pending.tx.some /\ pending.tx.endpoint.addr # "Invalid") =>
                       /\ first.called
                       /\ Len(first.calls) = 1
                       /\ SecondDispatchExhausted(obj, ret)

\* C13 witness: the first dispatch after an accepted send has just invoked
\* its closure, which failed, and the tx buffer is empty again.
C13_Witness ==
    /\ IsSocket
    /\ obj.tx_buffer.type = "UnitaryBuffer"
    /\ last.op = "dispatch"
    /\ last.called
    /\ Len(last.calls) = 1
    /\ IsErr(last.result, "Truncated")
    /\ ~Occupied(obj.tx_buffer)

\* C14: occupied-slot invariant of UnitaryBuffer. In every reachable state in
\* which the slot is occupied, size <= storage.len(), size equals the size
\* passed to the enqueue that filled the slot, and the first size octets of
\* the storage are the payload that enqueue's closure wrote.
C14_OccupiedSlot ==
    (obj.type = "UnitaryBuffer" /\ Occupied(obj)) =>
        /\ pending.some
        /\ obj.size <= Len(obj.storage)
        /\ obj.size = Len(pending.payload)
        /\ Prefix(obj.storage, obj.size) = pending.payload

\* C15: full-state frame. An enqueue attempted on an occupied UnitaryBuffer,
\* for any endpoint, size and closure, returns Exhausted without invoking the
\* closure and leaves the stored endpoint, size and octets unchanged, so that
\* the dequeue that follows still hands out the packet enqueued originally:
\* its endpoint and its payload.
C15_FullStateFrame ==
    (obj.type = "UnitaryBuffer" /\ Occupied(obj)) =>
        \A endpoint \in Endpoint, f \in WriteClosures,
           size \in 0..(StorageLen + 1) :
            LET e == enqueue(obj, endpoint, size, f)
            IN  /\ IsErr(e.result, "Exhausted")
                /\ ~e.called
                /\ e.self.endpoint = obj.endpoint
                /\ e.self.size = obj.size
                /\ e.self.storage = obj.storage
                /\ \A ret \in ClosureRets :
                       dequeue(e.self, UserClosure(ret)).calls =
                           << [endpoint |-> pending.endpoint,
                               buffer |-> pending.payload] >>

\* C16: no fatal state. From every reachable state of a UnitaryBuffer, after
\* any sequence of accepted, rejected or closure-failing enqueues and
\* dequeues, an enqueue of a size the storage holds with a closure that
\* succeeds is accepted at once or, if it is not, after one dequeue, whatever
\* the closure of that dequeue returns.
C16_NoFatalState ==
    obj.type = "UnitaryBuffer" =>
        \A endpoint \in Endpoint, data \in FittingPayloads :
            LET now == enqueue(obj, endpoint, Len(data), OkWrites(data))
            IN  \/ IsOk(now.result) /\ now.called
                \/ \A ret \in ClosureRets :
                       LET d == dequeue(obj, UserClosure(ret))
                           e == enqueue(d.self, endpoint, Len(data),
                                        OkWrites(data))
                       IN  IsOk(e.result) /\ e.called

\* C16 witness: the buffer is occupied and has just turned down an enqueue
\* that would have fitted, so a dequeue is needed before the next is taken.
C16_Witness ==
    /\ obj.type = "UnitaryBuffer"
    /\ Occupied(obj)
    /\ last.op = "enqueue"
    /\ last.size <= Len(obj.storage)
    /\ IsErr(last.result, "Exhausted")
    /\ ~last.called

\* C17: closure errors are propagated verbatim. In every reachable state of a
\* socket, when send, recv or dispatch invokes the closure it was given and
\* that closure returns an error E (Exhausted and Rejected included), the
\* operation returns exactly E, having invoked the closure once and only once.
C17_ClosureErrorsVerbatim ==
    IsSocket =>
        \A err \in FailingRets :
            /\ \A endpoint \in Endpoint, data \in Payloads :
                   LET s == send(obj, endpoint, Len(data),
                                 WriteClosure(data, err))
                   IN  s.called => SameResult(s.result, err)
            /\ LET r == recv(obj, UserClosure(err))
               IN  r.called =>
                       SameResult(r.result, err) /\ Len(r.calls) = 1
            /\ LET t == dispatch(obj, EmitClosure(err))
               IN  t.called =>
                       SameResult(t.result, err) /\ Len(t.calls) = 1

\* C17 witness: a dispatch has just invoked its closure, the closure failed
\* with Rejected, an error the core never produces in dispatch, and Rejected
\* is what the dispatch returned.
C17_Witness ==
    /\ IsSocket
    /\ last.op = "dispatch"
    /\ last.called
    /\ Len(last.calls) = 1
    /\ IsErr(last.result, "Rejected")

\* Tx buffers a socket may carry besides its own: none, and one that holds a
\* packet.
OtherTxBuffers ==
    {NullBuffer_new,
     [UnitaryBuffer_new(Zeros(StorageLen)) EXCEPT
        !.endpoint = [addr |-> "A1", port |-> 1]]}

C19_BoundEndpointImmutable ==
    [][IsSocket => obj'.endpoint = obj.endpoint]_vars

\* C19 witness: a socket bound to (A1, 1) has just dispatched a packet, and
\* the source address and port its closure was given are A1 and 1.
C19_Witness ==
    /\ IsSocket
    /\ obj.endpoint = [addr |-> "A1", port |-> 1]
    /\ last.op = "dispatch"
    /\ last.called
    /\ last.calls[1].src_addr = "A1"
    /\ last.calls[1].repr.src_port = 1

====
